---- MODULE Spec2Model ----
(***************************************************************************)
(* Secure-Compute: the two linear "homomorphic" schemes                    *)
(* (homomorphic_step3.py, class based; homomorphic_simple.py, function     *)
(* based) and the Paillier banking workflow (homomorphic_banking_demo.py). *)
(*                                                                         *)
(* Spec      the linear scheme: key instances, fresh encryptions, sums     *)
(*           built by homomorphic addition in any order, decryptions.      *)
(*           Every ciphertext is computed twice, by the class-based and by *)
(*           the function-based code, from the same key and noise draw.    *)
(* CrossSpec the same with both key holders encrypting.                    *)
(* DemoSpec  run_demo of the banking demo, step by step; calls is the log  *)
(*           of the Paillier library calls made so far.                    *)
(***************************************************************************)
EXTENDS Integers, Sequences, FiniteSets

\* the linear scheme
VARIABLES keys, customers, store, sums, dec
\* run_demo of the banking demo
VARIABLES pc, roster, public_key, private_key, branches, branch_data,
          all_encrypted_data, encrypted_data, encrypted_sum, total_count,
          computed_average, outcome, calls

evars == <<keys, customers, store, sums, dec>>
dvars == <<pc, roster, public_key, private_key, branches, branch_data,
           all_encrypted_data, encrypted_data, encrypted_sum, total_count,
           computed_average, outcome, calls>>
vars == <<evars, dvars>>

(***************************************************************************)
(* Program constants: the ranges of the three random.randint draws.        *)
(***************************************************************************)
MinSecretKey == 1000
MaxSecretKey == 9999
MinMultiplier == 100
MaxMultiplier == 500
MinNoise == 1
MaxNoise == 100

(***************************************************************************)
(* Bounds of the model.                                                    *)
(***************************************************************************)
\* fresh encryptions of one aggregation session
MaxFresh == 3
\* results of add calls kept at once
MaxSums == 3
\* fresh encryptions when two key holders both encrypt (CrossSpec)
MaxCross == 2

\* records handed to the central server (ServerSpec)
MaxRecords == 3

\* Keys the generation can draw: the corners of both ranges and two
\* neighbouring secret keys under one multiplier.
KeySamples ==
    { [secret_key |-> MinSecretKey,     multiplier |-> MinMultiplier],
      [secret_key |-> MinSecretKey + 1, multiplier |-> MinMultiplier],
      [secret_key |-> MaxSecretKey,     multiplier |-> MaxMultiplier] }

\* Noise values encrypt can draw: both ends of randint(1, 100).
Noises == {MinNoise, MaxNoise}

\* The balances of the scripts (Alice, Bob, Carol), and an edited list as the
\* scripts invite ("change the customer balances"): two equal balances and a
\* negative one.  Lists longer than three repeat.
ScriptBalances == <<5000, 12000, 8500>>
EditedBalances == <<5000, 5000, -1>>

Slots == IF MaxFresh > MaxCross THEN MaxFresh ELSE MaxCross

CustomerLists ==
    { [i \in 1..Slots |-> b[((i - 1) % 3) + 1]] :
        b \in {ScriptBalances, EditedBalances} }

\* Two key holders: two SimpleHomomorphicEncryption objects, or two runs of
\* the module-level key generation of homomorphic_simple.py.  "a" is the
\* crypto object of the aggregation session.
Instances == {"a", "b"}

NoDec == [done |-> FALSE]

\* Python's None
None == [none |-> TRUE]

(***************************************************************************)
(* homomorphic_step3.py: class SimpleHomomorphicEncryption.  self is the   *)
(* record of the object's fields; noise is the value random.randint drew.  *)
(***************************************************************************)
\* an encrypt that does not return the noise it drew
SHE_encrypt_hides_noise(self, value, noise) ==
    <<(value * self.multiplier) + self.secret_key + noise, 0>>

SHE_encrypt(self, value, noise) ==
    LET encrypted == (value * self.multiplier) + self.secret_key + noise
    IN  <<encrypted, noise>>

\* a decrypt that forgets to take the noise out
SHE_decrypt_keeps_noise(self, encrypted_value, noise) ==
    (encrypted_value - self.secret_key) \div self.multiplier

SHE_decrypt(self, encrypted_value, noise) ==
    (encrypted_value - self.secret_key - noise) \div self.multiplier

\* an add that carries only the first operand's noise
homomorphic_add_drops_noise(self, encrypted1, encrypted2) ==
    <<encrypted1[1] + encrypted2[1], encrypted1[2]>>

\* an add that takes one secret key out of the sum, so that it reads the key
homomorphic_add_reads_key(self, encrypted1, encrypted2) ==
    <<encrypted1[1] + encrypted2[1] - self.secret_key, encrypted1[2] + encrypted2[2]>>

homomorphic_add(self, encrypted1, encrypted2) ==
    LET value1 == encrypted1[1]
        noise1 == encrypted1[2]
        value2 == encrypted2[1]
        noise2 == encrypted2[2]
        result_value == value1 + value2
        result_noise == noise1 + noise2
    IN  <<result_value, result_noise>>

(***************************************************************************)
(* homomorphic_simple.py: the same scheme as three functions with the key  *)
(* passed explicitly.                                                      *)
(***************************************************************************)
\* an encrypt that adds the noise before multiplying
encrypt_scales_noise(value, secret_key, multiplier, noise) ==
    <<((value + noise) * multiplier) + secret_key, noise>>

encrypt(value, secret_key, multiplier, noise) ==
    LET encrypted_value == (value * multiplier) + secret_key + noise
    IN  <<encrypted_value, noise>>

decrypt(encrypted_value, noise, secret_key, multiplier) ==
    (encrypted_value - secret_key - noise) \div multiplier

\* an add that returns the second operand's noise as the combined noise
add_encrypted_numbers_wrong_noise(encrypted1, noise1, encrypted2, noise2) ==
    <<encrypted1 + encrypted2, noise2>>

add_encrypted_numbers(encrypted1, noise1, encrypted2, noise2) ==
    LET result == encrypted1 + encrypted2
        result_noise == noise1 + noise2
    IN  <<result, result_noise>>

(***************************************************************************)
(* State.                                                                  *)
(*   keys       instance -> its (secret_key, multiplier)                   *)
(*   customers  the balances to encrypt, in order                          *)
(*   store      the fresh ciphertexts, in the order encrypt returned them: *)
(*              store[i] encrypts customers[i]; key is the instance whose  *)
(*              key encrypt used; ct is the tuple of the class-based code, *)
(*              fct the tuple of the function-based code                   *)
(*   sums       the results of the add calls; idx is the set of store      *)
(*              positions combined                                         *)
(*   dec        the decrypt call of the run and what it returned; as in    *)
(*              both scripts, decrypt is the last call of a run            *)
(***************************************************************************)
Operands ==
    { [ct |-> store[i].ct, fct |-> store[i].fct, idx |-> {i}] :
        i \in 1..Len(store) } \cup sums

\* the banking demo has not started
DemoIdle ==
    /\ pc = "idle"
    /\ roster = <<>>
    /\ public_key = None
    /\ private_key = None
    /\ branches = <<>>
    /\ branch_data = <<>>
    /\ all_encrypted_data = <<>>
    /\ encrypted_data = <<>>
    /\ encrypted_sum = None
    /\ total_count = 0
    /\ computed_average = None
    /\ outcome = "none"
    /\ calls = <<>>

Init ==
    /\ keys \in [Instances -> KeySamples]
    /\ customers \in CustomerLists
    /\ store = <<>>
    /\ sums = {}
    /\ dec = NoDec
    /\ DemoIdle

\* crypto.encrypt(balance) / encrypt(balance, secret_key, multiplier) on the
\* next customer's balance
Encrypt(k, noise) ==
    LET m == customers[Len(store) + 1]
    IN  /\ ~dec.done
        /\ store' = Append(store,
              [m   |-> m,
               key |-> k,
               ct  |-> SHE_encrypt(keys[k], m, noise),
               fct |-> encrypt(m, keys[k].secret_key, keys[k].multiplier, noise)])
        /\ UNCHANGED <<keys, customers, sums, dec, dvars>>

\* crypto.homomorphic_add(x, y) / add_encrypted_numbers(x, nx, y, ny),
\* on ciphertexts that share no fresh encryption
Add(k, x, y) ==
    /\ ~dec.done
    /\ Cardinality(sums) < MaxSums
    /\ x.idx \cap y.idx = {}
    /\ sums' = sums \cup
          { [ct  |-> homomorphic_add(keys[k], x.ct, y.ct),
             fct |-> add_encrypted_numbers(x.fct[1], x.fct[2], y.fct[1], y.fct[2]),
             idx |-> x.idx \cup y.idx] }
    /\ sums' # sums
    /\ UNCHANGED <<keys, customers, store, dec, dvars>>

\* crypto.decrypt(value, noise) / decrypt(value, noise, secret_key, multiplier)
Decrypt(k, x) ==
    /\ ~dec.done
    /\ dec' = [done |-> TRUE,
               by   |-> k,
               idx  |-> x.idx,
               ct   |-> x.ct,
               fct  |-> x.fct,
               out  |-> SHE_decrypt(keys[k], x.ct[1], x.ct[2]),
               fout |-> decrypt(x.fct[1], x.fct[2],
                                keys[k].secret_key, keys[k].multiplier)]
    /\ UNCHANGED <<keys, customers, store, sums, dvars>>

\* One aggregation session: every balance is encrypted under the key of "a";
\* any key holder may add and decrypt.
Next ==
    \/ \E noise \in Noises : Len(store) < MaxFresh /\ Encrypt("a", noise)
    \/ \E k \in Instances, x \in Operands, y \in Operands : Add(k, x, y)
    \/ \E k \in Instances, x \in Operands : Decrypt(k, x)

Spec == Init /\ [][Next]_vars

\* Two key holders both encrypt, and their ciphertexts meet.
NextCross ==
    \/ \E k \in Instances, noise \in Noises :
          Len(store) < MaxCross /\ Encrypt(k, noise)
    \/ \E k \in Instances, x \in Operands, y \in Operands : Add(k, x, y)
    \/ \E k \in Instances, x \in Operands : Decrypt(k, x)

CrossSpec == Init /\ [][NextCross]_vars


(***************************************************************************)
(* homomorphic_banking_demo.py.  The Paillier operations are those of the  *)
(* phe library the demo imports; they are modelled from sections 4.1-4.4   *)
(* of the specification, over moduli small enough to compute with.         *)
(* Balances are small integers standing for the demo's amounts: the sum of *)
(* a roster stays below n / 3, the range phe encodes without wrap-around.  *)
(***************************************************************************)
\* prime pairs key generation can draw: gcd(pq, (p-1)(q-1)) = 1 for each
PrimePairs == { <<11, 13>>, <<11, 17>> }

\* blinding factors encrypt can draw: 0 < r < n, gcd(r, n) = 1
BlindingSamples == {2, 5}

RECURSIVE ModExp(_, _, _)
ModExp(b, e, m) ==
    IF e = 0 THEN 1 % m
    ELSE LET h == ModExp(b, e \div 2, m)
             sq == (h * h) % m
         IN  IF e % 2 = 1 THEN (sq * (b % m)) % m ELSE sq

RECURSIVE Gcd(_, _)
Gcd(a, b) == IF b = 0 THEN a ELSE Gcd(b, a % b)

Lcm(a, b) == (a * b) \div Gcd(a, b)

L(x, n) == (x - 1) \div n

\* 4.1: n = pq, g = n + 1, lambda = lcm(p-1, q-1),
\* mu = (L(g^lambda mod n^2))^-1 mod n
generate_paillier_keypair(p, q) ==
    LET n      == p * q
        g      == n + 1
        lambda == Lcm(p - 1, q - 1)
        u      == L(ModExp(g, lambda, n * n), n) % n
        mu     == CHOOSE x \in 1..(n - 1) : (x * u) % n = 1
    IN  [public_key  |-> [n |-> n, g |-> g],
         private_key |-> [lambda |-> lambda, mu |-> mu, n |-> n]]

\* 4.2: c = g^m * r^n mod n^2
paillier_encrypt(pk, m, r) ==
    LET nsq == pk.n * pk.n
    IN  [public_key |-> pk,
         ciphertext |-> (ModExp(pk.g, m, nsq) * ModExp(r, pk.n, nsq)) % nsq]

\* 4.3: c3 = c1 * c2 mod n^2; operands of two public keys are refused
paillier_add(c1, c2) ==
    IF c1.public_key # c2.public_key THEN [error |-> "KeyMismatchError"]
    ELSE LET nsq == c1.public_key.n * c1.public_key.n
         IN  [public_key |-> c1.public_key,
              ciphertext |-> (c1.ciphertext * c2.ciphertext) % nsq]

\* 4.4: m = L(c^lambda mod n^2) * mu mod n
paillier_decrypt(sk, c) ==
    (L(ModExp(c.ciphertext, sk.lambda, sk.n * sk.n), sk.n) * sk.mu) % sk.n

\* class Customer
Customer(customer_id, name, balance) ==
    [customer_id |-> customer_id, name |-> name, balance |-> balance]

\* The customers run_demo gives the two branches: per branch, the list of
\* Customer objects it adds.
Rosters ==
    { << <<Customer(1, "Alice Johnson", 5), Customer(2, "Bob Smith", 12)>>,
         <<Customer(4, "David Brown", 15), Customer(5, "Eve Davis", 6)>> >>,
      << <<Customer(1, "Alice Johnson", 5)>>,
         <<Customer(4, "David Brown", 15)>> >>,
      << <<Customer(1, "Alice Johnson", 8), Customer(2, "Bob Smith", 8)>>,
         <<>> >> }

\* BankBranch.encrypt_balances, the blinding factor of customer i being rs[i]
encrypt_balances(branch, rs) ==
    [i \in 1..Len(branch.customers) |->
        LET customer == branch.customers[i]
            encrypted_balance ==
                paillier_encrypt(branch.public_key, customer.balance, rs[i])
        IN  [customer_id       |-> customer.customer_id,
             customer_name     |-> customer.name,
             encrypted_balance |-> encrypted_balance,
             original_balance  |-> customer.balance]]

\* a loop that starts at index 2 and so never adds the second record
RECURSIVE compute_loop_skips(_, _)
compute_loop_skips(data, k) ==
    IF k <= 2 THEN data[1].encrypted_balance
    ELSE paillier_add(compute_loop_skips(data, k - 1), data[k].encrypted_balance)

\* the loop of CentralServer.compute_encrypted_sum over records 1..k
RECURSIVE compute_loop(_, _)
compute_loop(data, k) ==
    IF k = 1 THEN data[1].encrypted_balance
    ELSE paillier_add(compute_loop(data, k - 1), data[k].encrypted_balance)

\* CentralServer.compute_encrypted_sum: ValueError on an empty list
compute_encrypted_sum(data) ==
    IF Len(data) = 0 THEN [error |-> "ValueError"]
    ELSE [encrypted_sum |-> compute_loop(data, Len(data)), count |-> Len(data)]

RECURSIVE BalanceSum(_)
BalanceSum(cs) ==
    IF cs = <<>> THEN 0 ELSE cs[1].balance + BalanceSum(Tail(cs))

\* nothing of the linear scheme runs in the demo
EngineIdle ==
    /\ keys = <<>>
    /\ customers = <<>>
    /\ store = <<>>
    /\ sums = {}
    /\ dec = NoDec

DemoInit ==
    /\ EngineIdle
    /\ pc = "keygen"
    /\ roster \in Rosters
    /\ public_key = None
    /\ private_key = None
    /\ branches = <<>>
    /\ branch_data = <<>>
    /\ all_encrypted_data = <<>>
    /\ encrypted_data = <<>>
    /\ encrypted_sum = None
    /\ total_count = 0
    /\ computed_average = None
    /\ outcome = "none"
    /\ calls = <<>>

\* Step 1: paillier.generate_paillier_keypair
KeyGeneration(p, q) ==
    /\ pc = "keygen"
    /\ LET kp == generate_paillier_keypair(p, q)
       IN  /\ public_key' = kp.public_key
           /\ private_key' = kp.private_key
    /\ calls' = Append(calls, [op |-> "generate_paillier_keypair"])
    /\ pc' = "branches"
    /\ UNCHANGED <<roster, branches, branch_data, all_encrypted_data,
                   encrypted_data, encrypted_sum, total_count,
                   computed_average, outcome, evars>>

\* Step 2: BankBranch(branch_id, public_key) and add_customer, both branches
BranchData ==
    /\ pc = "branches"
    /\ branches' = [b \in 1..2 |->
            [branch_id  |-> b,
             public_key |-> public_key,
             customers  |-> roster[b]]]
    /\ pc' = "encrypt"
    /\ UNCHANGED <<calls, roster, public_key, private_key, branch_data,
                   all_encrypted_data, encrypted_data, encrypted_sum,
                   total_count, computed_average, outcome, evars>>

\* Step 3: branch1.encrypt_balances(), then branch2.encrypt_balances()
EncryptBalances(rs) ==
    /\ pc = "encrypt"
    /\ Len(branch_data) < 2
    /\ LET branch == branches[Len(branch_data) + 1]
       IN  /\ DOMAIN rs = 1..Len(branch.customers)
           /\ branch_data' = Append(branch_data, encrypt_balances(branch, rs))
           /\ calls' = calls \o
                 [i \in 1..Len(branch.customers) |->
                     [op |-> "encrypt", public_key |-> branch.public_key]]
    /\ UNCHANGED <<pc, roster, public_key, private_key, branches,
                   all_encrypted_data, encrypted_data, encrypted_sum,
                   total_count, computed_average, outcome, evars>>

\* a gathering that does not wait for the second branch
Gather_early ==
    /\ pc = "encrypt"
    /\ Len(branch_data) >= 1
    /\ all_encrypted_data' =
          IF Len(branch_data) = 2 THEN branch_data[1] \o branch_data[2]
          ELSE branch_data[1]
    /\ pc' = "privacy"
    /\ UNCHANGED <<calls, roster, public_key, private_key, branches,
                   branch_data, encrypted_data, encrypted_sum, total_count,
                   computed_average, outcome, evars>>

\* all_encrypted_data = encrypted_data_branch1 + encrypted_data_branch2
Gather ==
    /\ pc = "encrypt"
    /\ Len(branch_data) = 2
    /\ all_encrypted_data' = branch_data[1] \o branch_data[2]
    /\ pc' = "privacy"
    /\ UNCHANGED <<calls, roster, public_key, private_key, branches, branch_data,
                   encrypted_data, encrypted_sum, total_count,
                   computed_average, outcome, evars>>

\* Step 4: server.demonstrate_privacy(all_encrypted_data): the server is
\* handed the records and prints the first one's name and ciphertext
DemonstratePrivacy ==
    /\ pc = "privacy"
    /\ encrypted_data' = all_encrypted_data
    /\ pc' = IF Len(all_encrypted_data) = 0 THEN "IndexError" ELSE "sum"
    /\ UNCHANGED <<calls, roster, public_key, private_key, branches, branch_data,
                   all_encrypted_data, encrypted_sum, total_count,
                   computed_average, outcome, evars>>

\* server.compute_encrypted_sum(all_encrypted_data)
ComputeEncryptedSum ==
    /\ pc = "sum"
    /\ encrypted_data' = all_encrypted_data
    /\ LET r == compute_encrypted_sum(all_encrypted_data)
       IN  IF "error" \in DOMAIN r
           THEN /\ pc' = r.error
                /\ UNCHANGED <<encrypted_sum, total_count, calls>>
           ELSE /\ encrypted_sum' = r.encrypted_sum
                /\ total_count' = r.count
                /\ calls' = calls \o [i \in 1..(r.count - 1) |-> [op |-> "add"]]
                /\ pc' = "decrypt"
    /\ UNCHANGED <<roster, public_key, private_key, branches, branch_data,
                   all_encrypted_data, computed_average, outcome, evars>>

\* Step 5: BankHeadquarters(private_key).decrypt_and_calculate_average;
\* the average is kept as the exact fraction decrypted_sum / count
DecryptAndCalculateAverage ==
    /\ pc = "decrypt"
    /\ LET decrypted_sum == paillier_decrypt(private_key, encrypted_sum)
       IN  computed_average' = [num |-> decrypted_sum, den |-> total_count]
    /\ calls' = Append(calls, [op |-> "decrypt", arg |-> encrypted_sum])
    /\ pc' = "verify"
    /\ UNCHANGED <<roster, public_key, private_key, branches, branch_data,
                   all_encrypted_data, encrypted_data, encrypted_sum,
                   total_count, outcome, evars>>

\* Step 6: abs(actual_average - computed_average) < 0.01, the two averages
\* having the same small integer denominator
Verification ==
    /\ pc = "verify"
    /\ LET all_customers == branches[1].customers \o branches[2].customers
           actual_sum    == BalanceSum(all_customers)
       IN  outcome' = IF /\ computed_average.den = Len(all_customers)
                         /\ computed_average.num = actual_sum
                      THEN "SUCCESS" ELSE "ERROR"
    /\ pc' = "done"
    /\ UNCHANGED <<calls, roster, public_key, private_key, branches, branch_data,
                   all_encrypted_data, encrypted_data, encrypted_sum,
                   total_count, computed_average, evars>>

DemoNext ==
    \/ \E pq \in PrimePairs : KeyGeneration(pq[1], pq[2])
    \/ BranchData
    \/ \E n \in 0..2 : \E rs \in [1..n -> BlindingSamples] : EncryptBalances(rs)
    \/ Gather
    \/ DemonstratePrivacy
    \/ ComputeEncryptedSum
    \/ DecryptAndCalculateAverage
    \/ Verification

DemoSpec == DemoInit /\ [][DemoNext]_vars

(***************************************************************************)
(* CentralServer and BankHeadquarters on their own: the server is handed   *)
(* any list of records, the empty one included, computes, and headquarters *)
(* decrypts what it returned.                                              *)
(***************************************************************************)
\* balances of the customers whose records reach the server
ServerBalances == {5, 12}

ServerInit ==
    /\ EngineIdle
    /\ pc = "sum"
    /\ roster = <<>>
    /\ \E pq \in PrimePairs :
          LET kp == generate_paillier_keypair(pq[1], pq[2])
          IN  /\ public_key = kp.public_key
              /\ private_key = kp.private_key
    /\ branches = <<>>
    /\ branch_data = <<>>
    /\ all_encrypted_data = <<>>
    /\ encrypted_data = <<>>
    /\ encrypted_sum = None
    /\ total_count = 0
    /\ computed_average = None
    /\ outcome = "none"
    /\ calls = <<>>

\* one more record, as a branch's encrypt_balances builds it, joins the list
\* the server will be handed
ReceiveRecord(balance, r) ==
    /\ pc = "sum"
    /\ Len(all_encrypted_data) < MaxRecords
    /\ LET customer_id == Len(all_encrypted_data) + 1
           branch == [branch_id  |-> 1,
                      public_key |-> public_key,
                      customers  |-> <<Customer(customer_id, "customer", balance)>>]
       IN  all_encrypted_data' =
               all_encrypted_data \o encrypt_balances(branch, <<r>>)
    /\ UNCHANGED <<pc, roster, public_key, private_key, branches, branch_data,
                   encrypted_data, encrypted_sum, total_count,
                   computed_average, outcome, calls, evars>>

ServerNext ==
    \/ \E balance \in ServerBalances, r \in BlindingSamples :
          ReceiveRecord(balance, r)
    \/ ComputeEncryptedSum
    \/ DecryptAndCalculateAverage

ServerSpec == ServerInit /\ [][ServerNext]_vars

(***************************************************************************)
(* Helpers of the properties.                                              *)
(***************************************************************************)
RECURSIVE SumOver(_, _)
SumOver(f, S) ==
    IF S = {} THEN 0
    ELSE LET i == CHOOSE j \in S : TRUE IN f[i] + SumOver(f, S \ {i})

\* the sum of the plaintexts behind the store positions S
PlainSum(S) == SumOver([i \in 1..Len(store) |-> store[i].m], S)

SetMax(S) == CHOOSE i \in S : \A j \in S : j <= i

\* The scripts' own loop: start with the first ciphertext and add the others
\* in list order (class-based, then function-based).
RECURSIVE script_encrypted_sum(_)
script_encrypted_sum(S) ==
    IF Cardinality(S) = 1 THEN store[SetMax(S)].ct
    ELSE homomorphic_add(keys["a"], script_encrypted_sum(S \ {SetMax(S)}),
                         store[SetMax(S)].ct)

RECURSIVE final_encrypted_sum(_)
final_encrypted_sum(S) ==
    IF Cardinality(S) = 1 THEN store[SetMax(S)].fct
    ELSE LET acc  == final_encrypted_sum(S \ {SetMax(S)})
             last == store[SetMax(S)].fct
         IN  add_encrypted_numbers(acc[1], acc[2], last[1], last[2])

\* the plaintexts the specification supports: 0 <= m (below the modulus)
InRange(m) == m >= 0

\* every fresh ciphertext behind S was encrypted under the key value K
UnderKey(S, K) == \A i \in S : keys[store[i].key] = K

(***************************************************************************)
(* C1  Homomorphism: decrypting the combination of N >= 2 ciphertexts of   *)
(* in-range plaintexts, with the key they were encrypted under, returns    *)
(* exactly the sum of the plaintexts.                                      *)
(***************************************************************************)
C1_Homomorphism ==
    ( /\ dec.done
      /\ Cardinality(dec.idx) >= 2
      /\ UnderKey(dec.idx, keys[dec.by])
      /\ \A i \in dec.idx : InRange(store[i].m) )
    => /\ dec.out = PlainSum(dec.idx)
       /\ dec.fout = PlainSum(dec.idx)

(***************************************************************************)
(* C2  Round trip: decrypting one fresh ciphertext, with its noise and the *)
(* key it was encrypted under, returns the plaintext.                      *)
(***************************************************************************)
C2_RoundTrip ==
    ( /\ dec.done
      /\ Cardinality(dec.idx) = 1
      /\ UnderKey(dec.idx, keys[dec.by]) )
    => /\ dec.out = PlainSum(dec.idx)
       /\ dec.fout = PlainSum(dec.idx)

C2_Witness ==
    /\ dec.done
    /\ dec.idx = {3}
    /\ UnderKey(dec.idx, keys[dec.by])
    /\ store[3].m = -1
    /\ store[3].ct[2] = MaxNoise
    /\ dec.out = -1

(***************************************************************************)
(* C4  Order independence: whatever order and bracketing built a           *)
(* combination of ciphertexts, decrypting it gives what decrypting the     *)
(* list-order sum of the same ciphertexts gives.                           *)
(***************************************************************************)
C4_OrderIndependence ==
    dec.done =>
        /\ dec.out = SHE_decrypt(keys[dec.by], script_encrypted_sum(dec.idx)[1],
                                 script_encrypted_sum(dec.idx)[2])
        /\ dec.fout = decrypt(final_encrypted_sum(dec.idx)[1],
                              final_encrypted_sum(dec.idx)[2],
                              keys[dec.by].secret_key, keys[dec.by].multiplier)

\* the decrypted sum of all three was built as A + (B + C) or (B + C) + A:
\* (A + B) and (A + C) were never formed
C4_Witness ==
    /\ dec.done
    /\ dec.idx = {1, 2, 3}
    /\ \E s \in sums : s.idx = {2, 3}
    /\ \A s \in sums : s.idx # {1, 2} /\ s.idx # {1, 3}
    /\ store[1].ct[2] # store[2].ct[2]

(***************************************************************************)
(* C5  Key isolation: decrypting a fresh ciphertext with a key different   *)
(* from the one it was encrypted under never returns the plaintext.        *)
(***************************************************************************)
C5_KeyIsolation ==
    ( /\ dec.done
      /\ Cardinality(dec.idx) = 1
      /\ ~UnderKey(dec.idx, keys[dec.by]) )
    => /\ dec.out # PlainSum(dec.idx)
       /\ dec.fout # PlainSum(dec.idx)

(***************************************************************************)
(* C6  Probabilistic encryption: two encrypt calls on the same plaintext   *)
(* under the same key return different ciphertext values (and each         *)
(* decrypts to the plaintext).                                             *)
(***************************************************************************)
C6_Probabilistic ==
    /\ \A i, j \in 1..Len(store) :
          ( /\ i # j
            /\ store[i].m = store[j].m
            /\ keys[store[i].key] = keys[store[j].key] )
          => /\ store[i].ct[1] # store[j].ct[1]
             /\ store[i].fct[1] # store[j].fct[1]
    /\ C2_RoundTrip

(***************************************************************************)
(* C7  Key mismatch: no result of the add operation combines ciphertexts   *)
(* that were encrypted under two different keys.                           *)
(***************************************************************************)
C7_KeyMismatch ==
    \A s \in sums : \A i, j \in s.idx : keys[store[i].key] = keys[store[j].key]

(***************************************************************************)
(* C8  Invalid plaintext: no ciphertext exists for a plaintext outside the *)
(* supported range.                                                        *)
(***************************************************************************)
C8_RejectsOutOfRange ==
    \A i \in 1..Len(store) : InRange(store[i].m)

(***************************************************************************)
(* C9  Purity of add: a step that adds a result changes neither a key nor  *)
(* an existing ciphertext, and the result is the same whichever key        *)
(* holder's object performs the add on the two operands.                   *)
(***************************************************************************)
C9_AddIsPure ==
    [][ sums' # sums =>
          /\ keys' = keys
          /\ store' = store
          /\ sums \subseteq sums'
          /\ dec' = dec
          /\ \A s \in sums' \ sums :
                \E x, y \in Operands :
                    /\ x.idx \cap y.idx = {}
                    /\ s.idx = x.idx \cup y.idx
                    /\ \A k \in Instances :
                          s.ct = homomorphic_add(keys[k], x.ct, y.ct)
                    /\ s.fct = add_encrypted_numbers(x.fct[1], x.fct[2],
                                                     y.fct[1], y.fct[2]) ]_vars

C9_Witness ==
    /\ keys["a"].secret_key # keys["b"].secret_key
    /\ \E s \in sums : s.idx = {1, 2, 3}
    /\ \E s \in sums : s.idx = {1, 2}

(***************************************************************************)
(* C10  The key material an encrypt call is given is not sufficient to     *)
(* decrypt what the call returns.                                          *)
(***************************************************************************)
C10_EncryptKeyCannotDecrypt ==
    \A i \in 1..Len(store) :
        LET given == keys[store[i].key]
        IN  /\ SHE_decrypt(given, store[i].ct[1], store[i].ct[2]) # store[i].m
            /\ decrypt(store[i].fct[1], store[i].fct[2],
                       given.secret_key, given.multiplier) # store[i].m

(***************************************************************************)
(* C3  No plaintext at the computing party: in every record the server is  *)
(* handed, no field besides the customer's id, name and encrypted balance  *)
(* holds that customer's balance.                                          *)
(***************************************************************************)
BalanceOf(customer_id) ==
    LET all_customers == branches[1].customers \o branches[2].customers
        i == CHOOSE j \in 1..Len(all_customers) :
                 all_customers[j].customer_id = customer_id
    IN  all_customers[i].balance

C3_NoPlaintextAtServer ==
    \A i \in 1..Len(encrypted_data) :
        \A f \in DOMAIN encrypted_data[i] \
                 {"customer_id", "customer_name", "encrypted_balance"} :
            encrypted_data[i][f] # BalanceOf(encrypted_data[i].customer_id)

(***************************************************************************)
(* C11  Protocol ordering of run_demo, over the log of library calls: the  *)
(* keypair is generated once and first; every encryption is under that     *)
(* public key; the first add comes after the encryption of every           *)
(* customer's balance; decrypt is called at most once, after the adds, on  *)
(* the combination of all records and on no single record's ciphertext;    *)
(* a finished run has generated one keypair and decrypted once.            *)
(***************************************************************************)
CallsOf(op) == { i \in 1..Len(calls) : calls[i].op = op }

C11_ProtocolOrdering ==
    LET K == CallsOf("generate_paillier_keypair")
        E == CallsOf("encrypt")
        A == CallsOf("add")
        D == CallsOf("decrypt")
        customer_count == Len(roster[1]) + Len(roster[2])
    IN  /\ Cardinality(K) <= 1
        /\ calls # <<>> => K = {1}
        /\ \A i \in E : calls[i].public_key = public_key
        /\ \A i \in E, j \in A : i < j
        /\ A # {} => Cardinality(E) = customer_count
        /\ Cardinality(D) <= 1
        /\ \A i \in D :
              /\ \A j \in E \cup A : j < i
              /\ Cardinality(E) = customer_count
              /\ calls[i].arg = compute_loop(all_encrypted_data,
                                             Len(all_encrypted_data))
              /\ Len(all_encrypted_data) = customer_count
              /\ \A r \in 1..Len(all_encrypted_data) :
                    calls[i].arg # all_encrypted_data[r].encrypted_balance
        /\ pc = "done" => Cardinality(K) = 1 /\ Cardinality(D) = 1

\* a finished run of two branches with two customers each
C11_Witness ==
    /\ pc = "done"
    /\ Len(roster[1]) = 2
    /\ Len(roster[2]) = 2
    /\ Cardinality(CallsOf("encrypt")) = 4
    /\ Cardinality(CallsOf("add")) = 3
    /\ Cardinality(CallsOf("decrypt")) = 1

(***************************************************************************)
(* C12  Known-plaintext key recovery: two plaintext/ciphertext pairs with  *)
(* distinct plaintexts, encrypted under one key, are consistent with       *)
(* exactly one (secret_key, multiplier), the key that was used.            *)
(***************************************************************************)
\* the key K explains the pair: value = m * multiplier + secret_key + noise
Consistent(K, m, c) == c[1] = (m * K.multiplier) + K.secret_key + c[2]

\* Every key consistent with both pairs, over all multipliers the generation
\* can draw and all integer secret keys: for a multiplier, the first pair
\* leaves one secret key.
ConsistentKeys(m1, c1, m2, c2) ==
    { K \in { [secret_key |-> c1[1] - c1[2] - (m1 * mult), multiplier |-> mult] :
                mult \in MinMultiplier..MaxMultiplier } :
        Consistent(K, m1, c1) /\ Consistent(K, m2, c2) }

C12_KeyRecovery ==
    (sums = {} /\ ~dec.done) =>
        \A i, j \in 1..Len(store) :
            ( /\ store[i].m # store[j].m
              /\ keys[store[i].key] = keys[store[j].key] )
            => /\ ConsistentKeys(store[i].m, store[i].ct,
                                 store[j].m, store[j].ct)
                    = {keys[store[i].key]}
               /\ ConsistentKeys(store[i].m, store[i].fct,
                                 store[j].m, store[j].fct)
                    = {keys[store[i].key]}

C12_Witness ==
    /\ sums = {}
    /\ ~dec.done
    /\ Len(store) = 3
    /\ store[1].m = 5000
    /\ store[3].m = -1
    /\ store[1].ct[2] # store[3].ct[2]
    /\ keys["a"].multiplier = MaxMultiplier

(***************************************************************************)
(* C13  Shape of a combined ciphertext: a ciphertext combining k >= 1      *)
(* fresh encryptions of m1..mk under the key (secret_key, multiplier) has  *)
(* value = multiplier * (m1+...+mk) + k * secret_key + noise, its noise is *)
(* the sum of the k noises, within k..100k; and decrypting it with that    *)
(* key returns (m1+...+mk) + floor((k-1) * secret_key / multiplier).       *)
(***************************************************************************)
\* the sum of the noises drawn for the store positions S
NoiseSum(S) == SumOver([i \in 1..Len(store) |-> store[i].ct[2]], S)

LinearShape(c, S, K) ==
    LET k == Cardinality(S)
    IN  /\ c[1] = (K.multiplier * PlainSum(S)) + (k * K.secret_key) + c[2]
        /\ c[2] = NoiseSum(S)
        /\ k * MinNoise <= c[2]
        /\ c[2] <= k * MaxNoise

RECURSIVE CiphertextProduct(_)
CiphertextProduct(data) ==
    LET nsq == data[1].encrypted_balance.public_key.n
                 * data[1].encrypted_balance.public_key.n
    IN  IF Len(data) = 1 THEN data[1].encrypted_balance.ciphertext % nsq
        ELSE (CiphertextProduct(Tail(data))
                * data[1].encrypted_balance.ciphertext) % nsq

RECURSIVE OriginalSum(_)
OriginalSum(data) ==
    IF data = <<>> THEN 0 ELSE data[1].original_balance + OriginalSum(Tail(data))

C14_Returned ==
    /\ pc \in {"decrypt", "verify"} =>
          /\ Len(all_encrypted_data) >= 1
          /\ encrypted_data = all_encrypted_data
          /\ total_count = Len(all_encrypted_data)
          /\ encrypted_sum.public_key = public_key
          /\ encrypted_sum.ciphertext = CiphertextProduct(all_encrypted_data)
          /\ paillier_decrypt(private_key, encrypted_sum)
                = OriginalSum(all_encrypted_data)
    /\ pc = "ValueError" =>
          /\ all_encrypted_data = <<>>
          /\ encrypted_sum = None
          /\ total_count = 0

C14_ComputeEncryptedSum ==
    /\ []C14_Returned
    /\ [][ (pc = "sum" /\ pc' # "sum") =>
              /\ all_encrypted_data' = all_encrypted_data
              /\ (all_encrypted_data = <<>>) <=> (pc' = "ValueError")
              /\ (all_encrypted_data # <<>>) <=> (pc' = "decrypt") ]_vars

\* three records, the second and third with different balances, summed and
\* decrypted
C14_Witness ==
    /\ pc = "verify"
    /\ Len(all_encrypted_data) = 3
    /\ total_count = 3
    /\ all_encrypted_data[2].original_balance = 12
    /\ all_encrypted_data[3].original_balance = 5
    /\ computed_average.num = OriginalSum(all_encrypted_data)

(***************************************************************************)
(* C15  Equivalence of the two schemes: run on the same operations with    *)
(* the same key and the same noise draws, the function-based and the       *)
(* class-based code hold the same ciphertext values and noises, fresh and  *)
(* combined, and return the same decryption.                               *)
(***************************************************************************)
C15_SchemesAgree ==
    /\ \A i \in 1..Len(store) : store[i].ct = store[i].fct
    /\ \A s \in sums : s.ct = s.fct
    /\ dec.done => (dec.ct = dec.fct /\ dec.out = dec.fout)

\* a sum of all three, built from (B + C), decrypted by the other key holder
\* under another key
C15_Witness ==
    /\ dec.done
    /\ dec.by = "b"
    /\ keys["a"] # keys["b"]
    /\ dec.idx = {1, 2, 3}
    /\ \E s \in sums : s.idx = {2, 3}
    /\ store[3].m = -1
    /\ dec.out = dec.fout

====
